---- MODULE Spec2Model ----
(***************************************************************************)
(* htma-scanner: the extraction-and-diff pipeline of src/main.rs and       *)
(* src/shows.rs.  A text (Rust String / &str) is a sequence of characters, *)
(* each character a one-character string.                                  *)
(***************************************************************************)
EXTENDS Integers, Sequences, FiniteSets, TLC

VARIABLES
    pc,             \* position of main() in the current run
    run,            \* number of the current invocation of the program
    file,           \* content of shows.json (FILE_NAME): Absent, Corrupt or a JSON array
    prev_shows_vec, \* main: the previous shows, as imported
    shows_vec,      \* get_shows: the Comedy shows, before extend and sort
    music_vec,      \* get_shows: the Music shows
    current_shows,  \* main: the aggregate of this run
    new_shows,      \* main: Some(new shows) or None
    msg,            \* main: the text handed to notify
    outcome,        \* how the run ended: "running", "ok", "err" or "panic"
    error,          \* the error main returned, "" when none
    fetched,        \* the responses received in this run, per category
    log,            \* the calls main made in this run, in order
    notified,       \* the shows named in a text for which notify returned Ok
    file_at_start,  \* shows.json as it was when the run started
    input,          \* argument of the function under check (function specifications)
    output          \* its result, Pending before the call

vars == <<pc, run, file, prev_shows_vec, shows_vec, music_vec, current_shows,
          new_shows, msg, outcome, error, fetched, log, notified,
          file_at_start, input, output>>

runVars == <<pc, run, file, prev_shows_vec, shows_vec, music_vec, current_shows,
             new_shows, msg, outcome, error, fetched, log, notified,
             file_at_start>>

(***************************************************************************)
(* Results: Result<T, anyhow::Error>                                       *)
(***************************************************************************)
Ok(v) == [ok |-> TRUE, val |-> v]

Err(e) == [ok |-> FALSE, err |-> e, panic |-> FALSE]

\* a panic (Option::unwrap on None) unwinds through every caller: no value is returned
Panic(e) == [ok |-> FALSE, err |-> e, panic |-> TRUE]

\* Option<T>: None is the empty sequence, Some(v) the sequence of v alone
None == <<>>

Some(v) == <<v>>

Pending == [pending |-> TRUE]

(***************************************************************************)
(* Text helpers: str::trim, str::split, str::split_whitespace, str::parse  *)
(***************************************************************************)
IsWhitespace(c) == c \in {" ", "\t", "\n", "\r"}

RECURSIVE TrimStart(_)
TrimStart(s) ==
    IF s # <<>> /\ IsWhitespace(Head(s)) THEN TrimStart(Tail(s)) ELSE s

RECURSIVE TrimEnd(_)
TrimEnd(s) ==
    IF s # <<>> /\ IsWhitespace(s[Len(s)]) THEN TrimEnd(SubSeq(s, 1, Len(s) - 1)) ELSE s

Trim(s) == TrimEnd(TrimStart(s))

\* str::split(sep): n occurrences of sep give n + 1 segments, empty ones included
RECURSIVE Split(_, _)
Split(s, sep) ==
    IF \E i \in 1..Len(s) : s[i] = sep
    THEN LET i == CHOOSE k \in 1..Len(s) : s[k] = sep /\ \A j \in 1..(k - 1) : s[j] # sep
         IN  <<SubSeq(s, 1, i - 1)>> \o Split(SubSeq(s, i + 1, Len(s)), sep)
    ELSE <<s>>

\* str::split_whitespace: the non-empty maximal runs of non-whitespace characters
RECURSIVE SplitWhitespace(_)
SplitWhitespace(s) ==
    LET t == TrimStart(s)
    IN  IF t = <<>> THEN <<>>
        ELSE IF \E i \in 1..Len(t) : IsWhitespace(t[i])
        THEN LET i == CHOOSE k \in 1..Len(t) :
                          IsWhitespace(t[k]) /\ \A j \in 1..(k - 1) : ~IsWhitespace(t[j])
             IN  <<SubSeq(t, 1, i - 1)>> \o SplitWhitespace(SubSeq(t, i + 1, Len(t)))
        ELSE <<t>>

DigitChars == <<"0", "1", "2", "3", "4", "5", "6", "7", "8", "9">>

IsDigit(c) == \E i \in 1..10 : DigitChars[i] = c

DigitVal(c) == (CHOOSE i \in 1..10 : DigitChars[i] = c) - 1

RECURSIVE DigitsValue(_)
DigitsValue(s) ==
    IF s = <<>> THEN 0 ELSE 10 * DigitsValue(SubSeq(s, 1, Len(s) - 1)) + DigitVal(s[Len(s)])

AllDigits(s) == s # <<>> /\ \A i \in 1..Len(s) : IsDigit(s[i])

RECURSIVE StripZeros(_)
StripZeros(s) == IF Len(s) > 1 /\ Head(s) = "0" THEN StripZeros(Tail(s)) ELSE s

\* a < b for two digit strings of the same length
RECURSIVE DigitsLess(_, _)
DigitsLess(a, b) ==
    IF a = <<>> THEN FALSE
    ELSE IF Head(a) # Head(b) THEN DigitVal(Head(a)) < DigitVal(Head(b))
    ELSE DigitsLess(Tail(a), Tail(b))

\* the number the digits s denote is at most the number the digits max denote
DigitsAtMost(s, max) ==
    LET t == StripZeros(s)
    IN  Len(t) < Len(max) \/ (Len(t) = Len(max) /\ ~DigitsLess(max, t))

\* u32::MAX, i32::MAX and -i32::MIN, in digits: TLC's integers end at i32::MAX
U32MaxDigits == <<"4", "2", "9", "4", "9", "6", "7", "2", "9", "5">>

I32MaxDigits == <<"2", "1", "4", "7", "4", "8", "3", "6", "4", "7">>

I32MinDigits == <<"2", "1", "4", "7", "4", "8", "3", "6", "4", "8">>

I32Max == 2147483647

\* the value of digits that fit a u32 or an i32; a number beyond i32::MAX (no day of
\* a month, no year of the calendar) is kept as i32::MAX
ValueOf(digits) == IF DigitsAtMost(digits, I32MaxDigits) THEN DigitsValue(StripZeros(digits)) ELSE I32Max

\* <u32 as FromStr>::from_str: an optional '+', then decimal digits, no overflow
ParseU32(s) ==
    LET digits == IF s # <<>> /\ Head(s) = "+" THEN Tail(s) ELSE s
    IN  IF AllDigits(digits) /\ DigitsAtMost(digits, U32MaxDigits)
        THEN Ok(ValueOf(digits))
        ELSE Err("ParseIntError")

\* <i32 as FromStr>::from_str: an optional '+' or '-', then decimal digits, no overflow
ParseI32(s) ==
    LET neg    == s # <<>> /\ Head(s) = "-"
        digits == IF s # <<>> /\ Head(s) \in {"+", "-"} THEN Tail(s) ELSE s
    IN  IF ~AllDigits(digits) THEN Err("ParseIntError")
        ELSE IF neg /\ DigitsAtMost(digits, I32MinDigits) THEN Ok(0 - ValueOf(digits))
        ELSE IF ~neg /\ DigitsAtMost(digits, I32MaxDigits) THEN Ok(ValueOf(digits))
        ELSE Err("ParseIntError")

(***************************************************************************)
(* chrono::NaiveDate and chrono::NaiveTime                                 *)
(***************************************************************************)
IsLeapYear(y) == (y % 4 = 0 /\ y % 100 # 0) \/ y % 400 = 0

DaysInMonth(y, m) ==
    IF m = 2 THEN (IF IsLeapYear(y) THEN 29 ELSE 28)
    ELSE IF m \in {4, 6, 9, 11} THEN 30 ELSE 31

\* NaiveDate::from_ymd_opt: Some(date) for a date of the proleptic Gregorian calendar
\* (chrono's range of years, about 262,000 either side of 0, is beyond every input here)
from_ymd_opt(y, m, d) ==
    IF m \in 1..12 /\ d >= 1 /\ d <= DaysInMonth(y, m)
    THEN Ok([year |-> y, month |-> m, day |-> d])
    ELSE Err("None")

\* NaiveTime::from_hms_opt
from_hms_opt(h, mi, s) ==
    IF h \in 0..23 /\ mi \in 0..59 /\ s \in 0..59
    THEN Ok([hour |-> h, minute |-> mi, second |-> s])
    ELSE Err("None")

(***************************************************************************)
(* parse_hebrew_date                                                       *)
(***************************************************************************)
months ==
    << <<"י", "נ", "ו", "א", "ר">>,
       <<"פ", "ב", "ר", "ו", "א", "ר">>,
       <<"מ", "ר", "ץ">>,
       <<"א", "פ", "ר", "י", "ל">>,
       <<"מ", "א", "י">>,
       <<"י", "ו", "נ", "י">>,
       <<"י", "ו", "ל", "י">>,
       <<"א", "ו", "ג", "ו", "ס", "ט">>,
       <<"ס", "פ", "ט", "מ", "ב", "ר">>,
       <<"א", "ו", "ק", "ט", "ו", "ב", "ר">>,
       <<"נ", "ו", "ב", "מ", "ב", "ר">>,
       <<"ד", "צ", "מ", "ב", "ר">> >>

\* mutant: the index counted from 1, so that the month comes out one too high
MonthPosition_OneBased(name) ==
    IF \E i \in 1..Len(months) : months[i] = name
    THEN CHOOSE i \in 1..Len(months) : months[i] = name
    ELSE -1

\* months.iter().position(|&m| m == name): the first index, 0-based, or None (-1)
MonthPosition(name) ==
    IF \E i \in 1..Len(months) : months[i] = name
    THEN (CHOOSE i \in 1..Len(months) :
              months[i] = name /\ \A j \in 1..(i - 1) : months[j] # name) - 1
    ELSE -1

parse_hebrew_date(date_str) ==
    LET parts == Split(date_str, ",")
    IN  IF Len(parts) # 2 THEN Err("Invalid date format")
        ELSE
        LET day_and_month == SplitWhitespace(Trim(parts[2]))
        IN  IF Len(day_and_month) # 3 THEN Err("Invalid date format")
            ELSE
            LET day   == ParseU32(day_and_month[1])
                pos   == MonthPosition(day_and_month[2])
                year  == ParseI32(day_and_month[3])
            IN  IF ~day.ok THEN Err("Invalid day")
                ELSE IF pos = -1 THEN Err("Invalid month")
                ELSE IF ~year.ok THEN Err("Invalid year")
                ELSE LET date == from_ymd_opt(year.val, pos + 1, day.val)
                     IN  IF date.ok THEN date ELSE Err("Invalid date")

(***************************************************************************)
(* NaiveTime::parse_from_str(text, "%H:%M") and the prefix removal         *)
(***************************************************************************)
TimePrefix == <<"ב", "ש", "ע", "ה", " ">>

IsPrefix(p, s) == Len(p) <= Len(s) /\ SubSeq(s, 1, Len(p)) = p

\* str::replace(pat, ""): every non-overlapping occurrence, left to right
RECURSIVE RemoveAll(_, _)
RemoveAll(s, pat) ==
    IF s = <<>> THEN <<>>
    ELSE IF IsPrefix(pat, s) THEN RemoveAll(SubSeq(s, Len(pat) + 1, Len(s)), pat)
    ELSE <<Head(s)>> \o RemoveAll(Tail(s), pat)

\* the length of the longest prefix of s of at most two digits (a numeric item of width 2)
NumWidth(s) ==
    IF Len(s) >= 2 /\ IsDigit(s[1]) /\ IsDigit(s[2]) THEN 2
    ELSE IF Len(s) >= 1 /\ IsDigit(s[1]) THEN 1 ELSE 0

\* chrono's format items %H, ':' and %M: a numeric item skips leading whitespace and
\* takes one or two digits, the literal matches itself, nothing may follow
parse_from_str_HM(text) ==
    LET s1 == TrimStart(text)
        w1 == NumWidth(s1)
        r1 == SubSeq(s1, w1 + 1, Len(s1))
        s2 == IF r1 # <<>> THEN TrimStart(Tail(r1)) ELSE <<>>
        w2 == NumWidth(s2)
        r2 == SubSeq(s2, w2 + 1, Len(s2))
    IN  IF w1 = 0 THEN Err("ParseError(Invalid)")
        ELSE IF r1 = <<>> THEN Err("ParseError(TooShort)")
        ELSE IF Head(r1) # ":" THEN Err("ParseError(Invalid)")
        ELSE IF w2 = 0 THEN Err("ParseError(Invalid)")
        ELSE IF r2 # <<>> THEN Err("ParseError(TooLong)")
        ELSE LET t == from_hms_opt(DigitsValue(SubSeq(s1, 1, w1)),
                                   DigitsValue(SubSeq(s2, 1, w2)), 0)
             IN  IF t.ok THEN t ELSE Err("ParseError(OutOfRange)")

(***************************************************************************)
(* Category, Show                                                          *)
(***************************************************************************)
Category == {"None", "Comedy", "Music"}

DefaultYear == 1970

\* Show::default()
ShowDefault ==
    [title    |-> <<>>,
     date     |-> from_ymd_opt(DefaultYear, 1, 1).val,
     time     |-> from_hms_opt(0, 0, 0).val,
     category |-> "None"]

(***************************************************************************)
(* get_url, get_html_by_category, get_shows_by_category                    *)
(*                                                                         *)
(* A response of the web server is [transport, status, body]: transport is *)
(* FALSE when the request or the read of the body failed.  A body is the   *)
(* parsed document: the sequence of its div[class="category_shows"]        *)
(* elements, each the sequence of its div.details-container elements, each *)
(* [h2, date_container, time_container] with the text of the first such    *)
(* sub-node as an Option.                                                  *)
(***************************************************************************)
ENDPOINT_URLS == {"Comedy", "Music"}

get_url(category) ==
    IF category \in ENDPOINT_URLS THEN Ok(category) ELSE Err("Category not found")

\* reqwest::blocking::get(url)?.text()?: the status of the response is not looked at
get_html_by_category(category, response) ==
    LET url == get_url(category)
    IN  IF ~url.ok THEN url
        ELSE IF ~response.transport THEN Err("reqwest::Error")
        ELSE Ok(response.body)

\* mutant: a sub-node whose text does not parse is treated as an absent one
ExtractShow_Lenient(element, category) ==
    LET title == IF element.h2 # None THEN Trim(element.h2[1]) ELSE ShowDefault.title
        date  == IF element.date_container # None
                 THEN parse_hebrew_date(Trim(element.date_container[1]))
                 ELSE Ok(ShowDefault.date)
        time  == IF element.time_container # None
                 THEN parse_from_str_HM(RemoveAll(Trim(element.time_container[1]), TimePrefix))
                 ELSE Ok(ShowDefault.time)
    IN  Ok([title |-> title,
            date |-> IF date.ok THEN date.val ELSE ShowDefault.date,
            time |-> IF time.ok THEN time.val ELSE ShowDefault.time,
            category |-> category])

\* the body of the for loop: one details-container element to one Show
ExtractShow(element, category) ==
    LET title == IF element.h2 # None THEN Trim(element.h2[1]) ELSE ShowDefault.title
        date  == IF element.date_container # None
                 THEN parse_hebrew_date(Trim(element.date_container[1]))
                 ELSE Ok(ShowDefault.date)
        time  == IF element.time_container # None
                 THEN parse_from_str_HM(RemoveAll(Trim(element.time_container[1]), TimePrefix))
                 ELSE Ok(ShowDefault.time)
    IN  IF ~date.ok THEN date
        ELSE IF ~time.ok THEN time
        ELSE Ok([title |-> title, date |-> date.val, time |-> time.val,
                 category |-> category])

\* the for loop: the first failing element ends it with its error
RECURSIVE ExtractAll(_, _, _)
ExtractAll(details_element, category, ret_vec) ==
    IF details_element = <<>> THEN Ok(ret_vec)
    ELSE LET show == ExtractShow(Head(details_element), category)
         IN  IF ~show.ok THEN show
             ELSE ExtractAll(Tail(details_element), category, Append(ret_vec, show.val))

get_shows_by_category(category, response) ==
    LET html == get_html_by_category(category, response)
    IN  IF ~html.ok THEN html
        ELSE IF html.val = <<>> THEN Panic("called Option::unwrap() on a None value")
        ELSE ExtractAll(html.val[1], category, <<>>)

(***************************************************************************)
(* Show: derived PartialEq, Display of its fields, serde                   *)
(***************************************************************************)
\* mutant: shows compared by their titles alone
ShowEq_TitleOnly(a, b) == a.title = b.title

\* #[derive(PartialEq)] on Show: all four fields
ShowEq(a, b) ==
    /\ a.title = b.title
    /\ a.date = b.date
    /\ a.time = b.time
    /\ a.category = b.category

\* Ord on NaiveDate and NaiveTime: -1 (Less), 0 (Equal), 1 (Greater)
CmpInt(a, b) == IF a < b THEN -1 ELSE IF a > b THEN 1 ELSE 0

DateCmp(a, b) ==
    IF a.year # b.year THEN CmpInt(a.year, b.year)
    ELSE IF a.month # b.month THEN CmpInt(a.month, b.month)
    ELSE CmpInt(a.day, b.day)

TimeCmp(a, b) ==
    IF a.hour # b.hour THEN CmpInt(a.hour, b.hour)
    ELSE IF a.minute # b.minute THEN CmpInt(a.minute, b.minute)
    ELSE CmpInt(a.second, b.second)

\* the decimal digits of n; ZeroPad is the format width with zero fill
RECURSIVE Decimal(_)
Decimal(n) == IF n < 10 THEN <<DigitChars[n + 1]>> ELSE Decimal(n \div 10) \o <<DigitChars[(n % 10) + 1]>>

RECURSIVE ZeroPad(_, _)
ZeroPad(s, width) == IF Len(s) >= width THEN s ELSE ZeroPad(<<"0">> \o s, width)

\* Display of NaiveDate (years 0 to 9999): YYYY-MM-DD
FormatDate(d) ==
    ZeroPad(Decimal(d.year), 4) \o <<"-">> \o ZeroPad(Decimal(d.month), 2)
        \o <<"-">> \o ZeroPad(Decimal(d.day), 2)

\* Display of NaiveTime (no fraction of a second): HH:MM:SS
FormatTime(t) ==
    ZeroPad(Decimal(t.hour), 2) \o <<":">> \o ZeroPad(Decimal(t.minute), 2)
        \o <<":">> \o ZeroPad(Decimal(t.second), 2)

\* FromStr of NaiveDate, as serde uses it
DateFromStr(s) ==
    LET p == Split(s, "-")
    IN  IF Len(p) = 3 /\ \A i \in 1..3 : AllDigits(p[i])
        THEN from_ymd_opt(DigitsValue(p[1]), DigitsValue(p[2]), DigitsValue(p[3]))
        ELSE Err("ParseError")

\* FromStr of NaiveTime, as serde uses it
TimeFromStr(s) ==
    LET p == Split(s, ":")
    IN  IF Len(p) = 3 /\ \A i \in 1..3 : AllDigits(p[i])
        THEN from_hms_opt(DigitsValue(p[1]), DigitsValue(p[2]), DigitsValue(p[3]))
        ELSE Err("ParseError")

\* #[derive(Serialize)] on Show: one JSON object of four strings
SerializeShow(show) ==
    [title    |-> show.title,
     date     |-> FormatDate(show.date),
     time     |-> FormatTime(show.time),
     category |-> show.category]

\* #[derive(Deserialize)] on Show
DeserializeShow(obj) ==
    LET date == DateFromStr(obj.date)
        time == TimeFromStr(obj.time)
    IN  IF ~date.ok THEN date
        ELSE IF ~time.ok THEN time
        ELSE IF obj.category \notin Category THEN Err("unknown variant")
        ELSE Ok([title |-> obj.title, date |-> date.val, time |-> time.val,
                 category |-> obj.category])

(***************************************************************************)
(* shows.json: absent, not a JSON array of shows, or a JSON array          *)
(***************************************************************************)
Absent == [state |-> "absent", json |-> <<>>]

Corrupt == [state |-> "corrupt", json |-> <<>>]

Json(array) == [state |-> "json", json |-> array]

\* export_file: the JSON text that std::fs::write is given
to_string_pretty(shows) == Json([i \in 1..Len(shows) |-> SerializeShow(shows[i])])

import_file(f) ==
    IF f.state = "absent" THEN Err("io::Error")
    ELSE IF f.state = "corrupt" THEN Err("serde_json::Error")
    ELSE IF \E i \in 1..Len(f.json) : ~DeserializeShow(f.json[i]).ok
    THEN Err("serde_json::Error")
    ELSE Ok([i \in 1..Len(f.json) |-> DeserializeShow(f.json[i]).val])

(***************************************************************************)
(* get_shows: extend, then the stable sort_by on (date, time)              *)
(***************************************************************************)
\* the comparator of sort_by
Compare(a, b) ==
    IF DateCmp(a.date, b.date) # 0 THEN DateCmp(a.date, b.date)
    ELSE TimeCmp(a.time, b.time)

\* mutant: an unstable sort, x inserted before the elements it compares equal to
RECURSIVE Insert_Unstable(_, _)
Insert_Unstable(sorted, x) ==
    IF sorted = <<>> THEN <<x>>
    ELSE IF Compare(sorted[Len(sorted)], x) < 0 THEN Append(sorted, x)
    ELSE Append(Insert_Unstable(SubSeq(sorted, 1, Len(sorted) - 1), x), sorted[Len(sorted)])

\* x inserted behind every element that does not compare greater: equal elements
\* keep their order (slice::sort_by is stable)
RECURSIVE Insert(_, _)
Insert(sorted, x) ==
    IF sorted = <<>> THEN <<x>>
    ELSE IF Compare(sorted[Len(sorted)], x) <= 0 THEN Append(sorted, x)
    ELSE Append(Insert(SubSeq(sorted, 1, Len(sorted) - 1), x), sorted[Len(sorted)])

RECURSIVE sort_by(_)
sort_by(v) ==
    IF v = <<>> THEN <<>> ELSE Insert(sort_by(SubSeq(v, 1, Len(v) - 1)), v[Len(v)])

\* get_shows, after both categories were fetched
Aggregate(comedy, music) == sort_by(comedy \o music)

(***************************************************************************)
(* check_for_new_shows                                                     *)
(***************************************************************************)
IsNew(prev, new_show) == ~\E i \in 1..Len(prev) : ShowEq(prev[i], new_show)

\* Vec::retain: the elements kept, in their order
RECURSIVE Retain(_, _)
Retain(v, prev) ==
    IF v = <<>> THEN <<>>
    ELSE IF IsNew(prev, Head(v)) THEN <<Head(v)>> \o Retain(Tail(v), prev)
    ELSE Retain(Tail(v), prev)

check_for_new_shows(prev, current) ==
    LET retained == Retain(current, prev)
    IN  IF retained = <<>> THEN None ELSE Some(retained)

(***************************************************************************)
(* The message of main, and notify                                         *)
(***************************************************************************)
\* U+1F51B, the "ON!" arrow, and U+0060, the grave accent: one character each
OnArrow == "U+1F51B"

GraveAccent == "U+0060"

Header == <<"*", "ה", "ו", "פ", "ע", "ו", "ת", " ", "ח", "ד", "ש", "ו", "ת", "*", ":">>

\* mutant: the date and the time in each other's place
FormatLine_Swapped(s) ==
    s.title \o <<" ", OnArrow, " ", GraveAccent>> \o FormatTime(s.time)
        \o <<" ", "(">> \o FormatDate(s.date) \o <<")", GraveAccent>>

\* format!("{} <U+1F51B> `{} ({})`", s.title, s.date, s.time)
FormatLine(s) ==
    s.title \o <<" ", OnArrow, " ", GraveAccent>> \o FormatDate(s.date)
        \o <<" ", "(">> \o FormatTime(s.time) \o <<")", GraveAccent>>

\* [String]::join(sep)
RECURSIVE Join(_, _)
Join(strs, sep) ==
    IF strs = <<>> THEN <<>>
    ELSE IF Len(strs) = 1 THEN strs[1]
    ELSE strs[1] \o sep \o Join(Tail(strs), sep)

FormatMsg(shows) ==
    Header \o <<"\n">> \o Join([i \in 1..Len(shows) |-> FormatLine(shows[i])], <<"\r", "\n">>)

\* notify: the two environment variables, then the GET, whose status is not looked at
notify(text, env, telegram) ==
    IF ~env.TELEGRAM_TOKEN THEN Err("env::VarError(TELEGRAM_TOKEN)")
    ELSE IF ~env.CHAT_ID THEN Err("env::VarError(CHAT_ID)")
    ELSE IF ~telegram.transport THEN Err("reqwest::Error")
    ELSE Ok(text)

(***************************************************************************)
(* The environment of a run: the pages the site serves, the environment    *)
(* variables, the answer of the Telegram API, the file system.             *)
(***************************************************************************)
MaxRuns == 2

WeekdayLabel == <<"ר", "ב", "י", "ע", "י">>

DateText(day, month, year) ==
    WeekdayLabel \o <<",", " ">> \o day \o <<" ">> \o month \o <<" ">> \o year

\* the text of a node as the page has it, white space around it
NodeText(s) == <<"\n", " ">> \o s \o <<" ">>

Date1Text == NodeText(DateText(<<"5">>, months[5], <<"2", "0", "2", "7">>))

Date2Text == NodeText(DateText(<<"6">>, months[5], <<"2", "0", "2", "7">>))

\* 31 June
BadDateText == NodeText(DateText(<<"3", "1">>, months[6], <<"2", "0", "2", "7">>))

Time1Text == NodeText(TimePrefix \o <<"2", "0", ":", "3", "0">>)

Element(title, date, time) == [h2 |-> title, date_container |-> date, time_container |-> time]

ElementA1 == Element(Some(NodeText(<<"A">>)), Some(Date1Text), Some(Time1Text))

ElementB1 == Element(Some(NodeText(<<"B">>)), Some(Date1Text), Some(Time1Text))

ElementB2 == Element(Some(NodeText(<<"B">>)), Some(Date2Text), Some(Time1Text))

\* a later show on the first day, its time without the prefix
ElementBLate ==
    Element(Some(NodeText(<<"B">>)), Some(Date1Text), Some(NodeText(<<"2", "1", ":", "0", "0">>)))

ElementBad == Element(Some(NodeText(<<"B">>)), Some(BadDateText), Some(Time1Text))

\* a page without the listing container, as an error page is
NoContainerPage == <<>>

Pages ==
    { NoContainerPage,
      << <<>> >>,
      << <<ElementA1>> >>,
      << <<ElementB1, ElementA1>> >>,
      << <<ElementB2, ElementBLate, ElementA1>> >>,
      << <<ElementA1, ElementBad>> >> }

\* what a non-success response carries: an error page, or the listing all the same
ErrorStatusPages == { NoContainerPage, << <<ElementA1>> >> }

TransportFailure == [transport |-> FALSE, status |-> 0, body |-> <<>>]

Responses ==
    {TransportFailure}
        \cup {[transport |-> TRUE, status |-> 200, body |-> b] : b \in Pages}
        \cup {[transport |-> TRUE, status |-> 500, body |-> b] : b \in ErrorStatusPages}

Envs == [TELEGRAM_TOKEN : BOOLEAN, CHAT_ID : BOOLEAN]

TelegramResponses ==
    {[transport |-> FALSE, status |-> 0], [transport |-> TRUE, status |-> 200],
     [transport |-> TRUE, status |-> 400]}

\* Vec<Show> == Vec<Show>
VecEq(a, b) == Len(a) = Len(b) /\ \A i \in 1..Len(a) : ShowEq(a[i], b[i])

Elems(v) == {v[i] : i \in 1..Len(v)}

(***************************************************************************)
(* main, one action per call it makes                                      *)
(***************************************************************************)
NoCall == input = <<>> /\ output = Pending

Init ==
    /\ pc = "import"
    /\ run = 1
    /\ file \in {Absent, Corrupt, Json(<<>>)}
    /\ file_at_start = file
    /\ prev_shows_vec = <<>>
    /\ shows_vec = <<>>
    /\ music_vec = <<>>
    /\ current_shows = <<>>
    /\ new_shows = None
    /\ msg = <<>>
    /\ outcome = "running"
    /\ error = ""
    /\ fetched = <<>>
    /\ log = <<>>
    /\ notified = {}
    /\ NoCall

\* `?` on an Err, or a panic: main ends here
Abort(r) ==
    /\ pc' = "done"
    /\ outcome' = IF r.panic THEN "panic" ELSE "err"
    /\ error' = r.err

\* return Ok(())
ReturnOk ==
    /\ pc' = "done"
    /\ outcome' = "ok"
    /\ error' = ""

\* import_file().unwrap_or_else(|_| vec![])
ImportFile ==
    /\ pc = "import"
    /\ prev_shows_vec' = (IF import_file(file).ok THEN import_file(file).val ELSE <<>>)
    /\ log' = Append(log, "import_file")
    /\ pc' = "get_comedy"
    /\ UNCHANGED <<run, file, shows_vec, music_vec, current_shows, new_shows, msg,
                   outcome, error, fetched, notified, file_at_start, input, output>>

\* get_shows: get_shows_by_category(Category::Comedy)?
GetShowsComedy ==
    /\ pc = "get_comedy"
    /\ \E response \in Responses :
          LET r == get_shows_by_category("Comedy", response)
          IN  /\ fetched' = Append(fetched, response)
              /\ IF r.ok
                 THEN /\ shows_vec' = r.val
                      /\ pc' = "get_music"
                      /\ UNCHANGED <<outcome, error>>
                 ELSE /\ Abort(r)
                      /\ UNCHANGED shows_vec
              /\ log' = Append(log, IF r.ok THEN "get_shows_by_category"
                                             ELSE "get_shows_by_category failed")
    /\ UNCHANGED <<run, file, prev_shows_vec, music_vec, current_shows, new_shows, msg,
                   notified, file_at_start, input, output>>

\* get_shows: get_shows_by_category(Category::Music)?, extend, sort_by
GetShowsMusic ==
    /\ pc = "get_music"
    /\ \E response \in Responses :
          LET r == get_shows_by_category("Music", response)
          IN  /\ fetched' = Append(fetched, response)
              /\ IF r.ok
                 THEN /\ music_vec' = r.val
                      /\ current_shows' = Aggregate(shows_vec, r.val)
                      /\ pc' = "compare"
                      /\ UNCHANGED <<outcome, error>>
                 ELSE /\ Abort(r)
                      /\ UNCHANGED <<music_vec, current_shows>>
              /\ log' = Append(log, IF r.ok THEN "get_shows_by_category"
                                             ELSE "get_shows_by_category failed")
    /\ UNCHANGED <<run, file, prev_shows_vec, shows_vec, new_shows, msg,
                   notified, file_at_start, input, output>>

\* if prev_shows_vec == current_shows { return Ok(()) }
ComparePrev ==
    /\ pc = "compare"
    /\ IF VecEq(prev_shows_vec, current_shows)
       THEN ReturnOk
       ELSE pc' = "check" /\ UNCHANGED <<outcome, error>>
    /\ UNCHANGED <<run, file, prev_shows_vec, shows_vec, music_vec, current_shows,
                   new_shows, msg, fetched, log, notified, file_at_start, input, output>>

\* mutant: the snapshot written as soon as new shows are found, before notify
CheckForNewShows_ExportFirst ==
    /\ pc = "check"
    /\ new_shows' = check_for_new_shows(prev_shows_vec, current_shows)
    /\ IF new_shows' # None
       THEN /\ msg' = FormatMsg(new_shows'[1])
            /\ file' = to_string_pretty(current_shows)
            /\ log' = log \o <<"check_for_new_shows", "export_file">>
            /\ pc' = "notify"
            /\ UNCHANGED <<outcome, error>>
       ELSE /\ ReturnOk
            /\ log' = Append(log, "check_for_new_shows")
            /\ UNCHANGED <<msg, file>>
    /\ UNCHANGED <<run, prev_shows_vec, shows_vec, music_vec, current_shows,
                   fetched, notified, file_at_start, input, output>>

\* if let Some(new_shows) = check_for_new_shows(..) { let msg = format!(..) } else { .. }
CheckForNewShows ==
    /\ pc = "check"
    /\ new_shows' = check_for_new_shows(prev_shows_vec, current_shows)
    /\ log' = Append(log, "check_for_new_shows")
    /\ IF new_shows' # None
       THEN /\ msg' = FormatMsg(new_shows'[1])
            /\ pc' = "notify"
            /\ UNCHANGED <<outcome, error>>
       ELSE /\ ReturnOk
            /\ UNCHANGED msg
    /\ UNCHANGED <<run, file, prev_shows_vec, shows_vec, music_vec, current_shows,
                   fetched, notified, file_at_start, input, output>>

\* mutant: the result of notify dropped, main goes on to export_file either way
Notify_ResultIgnored ==
    /\ pc = "notify"
    /\ \E env \in Envs, telegram \in TelegramResponses :
          LET r == notify(msg, env, telegram)
          IN  /\ notified' = (IF r.ok THEN notified \cup Elems(new_shows[1]) ELSE notified)
              /\ log' = Append(log, IF r.ok THEN "notify" ELSE "notify failed")
    /\ pc' = "export"
    /\ UNCHANGED <<run, file, prev_shows_vec, shows_vec, music_vec, current_shows,
                   new_shows, msg, fetched, file_at_start, outcome, error, input, output>>

\* notify(msg)?
Notify ==
    /\ pc = "notify"
    /\ \E env \in Envs, telegram \in TelegramResponses :
          LET r == notify(msg, env, telegram)
          IN  IF r.ok
              THEN /\ notified' = notified \cup Elems(new_shows[1])
                   /\ log' = Append(log, "notify")
                   /\ pc' = "export"
                   /\ UNCHANGED <<outcome, error>>
              ELSE /\ Abort(r)
                   /\ log' = Append(log, "notify failed")
                   /\ UNCHANGED notified
    /\ UNCHANGED <<run, file, prev_shows_vec, shows_vec, music_vec, current_shows,
                   new_shows, msg, fetched, file_at_start, input, output>>

\* export_file(&current_shows)?: std::fs::write may fail before it wrote anything
\* or after it truncated the file
ExportFile ==
    /\ pc = "export"
    /\ log' = Append(log, "export_file")
    /\ \/ /\ file' = to_string_pretty(current_shows)
          /\ ReturnOk
       \/ /\ file' \in {file, Corrupt}
          /\ Abort(Err("io::Error"))
    /\ UNCHANGED <<run, prev_shows_vec, shows_vec, music_vec, current_shows,
                   new_shows, msg, fetched, notified, file_at_start, input, output>>

\* the next invocation of the program
NextRun ==
    /\ pc = "done"
    /\ run < MaxRuns
    /\ run' = run + 1
    /\ pc' = "import"
    /\ file_at_start' = file
    /\ prev_shows_vec' = <<>>
    /\ shows_vec' = <<>>
    /\ music_vec' = <<>>
    /\ current_shows' = <<>>
    /\ new_shows' = None
    /\ msg' = <<>>
    /\ outcome' = "running"
    /\ error' = ""
    /\ fetched' = <<>>
    /\ log' = <<>>
    /\ UNCHANGED <<file, notified, input, output>>

Next ==
    \/ ImportFile
    \/ GetShowsComedy
    \/ GetShowsMusic
    \/ ComparePrev
    \/ CheckForNewShows
    \/ Notify
    \/ ExportFile
    \/ NextRun

Spec == Init /\ [][Next]_vars

(***************************************************************************)
(* Function specifications: one call of a function on an argument drawn    *)
(* from a bounded set; main is not running.                                *)
(***************************************************************************)
NoRun ==
    /\ pc = "idle"
    /\ run = 0
    /\ file = Absent
    /\ file_at_start = Absent
    /\ prev_shows_vec = <<>>
    /\ shows_vec = <<>>
    /\ music_vec = <<>>
    /\ current_shows = <<>>
    /\ new_shows = None
    /\ msg = <<>>
    /\ outcome = "idle"
    /\ error = ""
    /\ fetched = <<>>
    /\ log = <<>>
    /\ notified = {}

\* --- parse_hebrew_date ---------------------------------------------------
MaxCommas == 2

MaxExtraTokens == 1

OverflowToken == <<"4", "2", "9", "4", "9", "6", "7", "2", "9", "6">>

DateTokens ==
    { <<"2", "9">>, <<"3", "1">>, <<"x">>, <<"-", "5">>, OverflowToken,
      months[2], months[5], months[6],
      <<"2", "0", "2", "7">>, <<"2", "0", "2", "4">> }

TokenSeqs ==
    UNION {[1..n -> DateTokens] : n \in 2..3}
        \cup {t \o [i \in 1..k |-> <<"x">>] : t \in [1..3 -> DateTokens], k \in 1..MaxExtraTokens}

DateInputs == [commas : 0..MaxCommas, pad : BOOLEAN, toks : TokenSeqs]

\* the text of an input: a weekday label before each comma, then the tokens, with
\* more white space when padded
DateStr(in) ==
    LET gap  == IF in.pad THEN <<" ", " ">> ELSE <<" ">>
        last == (IF in.pad THEN <<" ">> ELSE <<>>) \o Join(in.toks, gap)
                    \o (IF in.pad THEN <<" ">> ELSE <<>>)
    IN  Join([i \in 1..(in.commas + 1) |-> IF i <= in.commas THEN WeekdayLabel ELSE last],
             <<",">>)

InitParseDate == NoRun /\ input \in DateInputs /\ output = Pending

CallParseDate ==
    /\ output = Pending
    /\ output' = parse_hebrew_date(DateStr(input))
    /\ UNCHANGED <<input, runVars>>

SpecParseDate == InitParseDate /\ [][CallParseDate]_vars

\* --- get_shows_by_category -----------------------------------------------
MaxItems == 2

BadTimeText == NodeText(<<"2", "5", ":", "9", "9">>)

ElementPool ==
    { Element(t, d, h) :
        t \in {None, Some(NodeText(<<"A">>))},
        d \in {None, Some(Date1Text), Some(BadDateText)},
        h \in {None, Some(Time1Text), Some(BadTimeText)} }

Documents ==
    {NoContainerPage} \cup { <<items>> : items \in UNION {[1..n -> ElementPool] : n \in 0..MaxItems} }

ExtractInputs == [category : {"Comedy", "Music"}, body : Documents]

InitExtract == NoRun /\ input \in ExtractInputs /\ output = Pending

CallExtract ==
    /\ output = Pending
    /\ output' = get_shows_by_category(input.category,
                      [transport |-> TRUE, status |-> 200, body |-> input.body])
    /\ UNCHANGED <<input, runVars>>

SpecExtract == InitExtract /\ [][CallExtract]_vars

\* --- check_for_new_shows -------------------------------------------------
MaxPrev == 2

MaxCurrent == 3

Date1 == [year |-> 2027, month |-> 5, day |-> 5]

Date2 == [year |-> 2027, month |-> 5, day |-> 6]

Time1 == [hour |-> 20, minute |-> 30, second |-> 0]

Time2 == [hour |-> 21, minute |-> 0, second |-> 0]

Show0 == [title |-> <<"A">>, date |-> Date1, time |-> Time1, category |-> "Comedy"]

\* Show0 and the four shows that differ from it in one field
DiffShows ==
    { Show0,
      [Show0 EXCEPT !.title = <<"B">>],
      [Show0 EXCEPT !.date = Date2],
      [Show0 EXCEPT !.time = Time2],
      [Show0 EXCEPT !.category = "Music"] }

SeqsUpTo(S, n) == UNION {[1..k -> S] : k \in 0..n}

DiffInputs == [previous : SeqsUpTo(DiffShows, MaxPrev), current : SeqsUpTo(DiffShows, MaxCurrent)]

InitDiff == NoRun /\ input \in DiffInputs /\ output = Pending

CallDiff ==
    /\ output = Pending
    /\ output' = [ret |-> check_for_new_shows(input.previous, input.current)]
    /\ UNCHANGED <<input, runVars>>

SpecDiff == InitDiff /\ [][CallDiff]_vars

(***************************************************************************)
(* The claims                                                              *)
(***************************************************************************)
\* the shows the next run would load: a file that cannot be read counts as empty
Snapshot(f) == IF import_file(f).ok THEN import_file(f).val ELSE <<>>

Positions(v, e) == {i \in 1..Len(v) : v[i] = e}

MsgFormatted == pc \in {"notify", "export"}

Aggregated == pc \in {"compare", "check", "notify", "export"}

\* --- C1 -------------------------------------------------------------------
\* the sequence check_for_new_shows returned: None is no new show
DiffResult == IF output.ret = None THEN <<>> ELSE output.ret[1]

\* the indices of current whose show equals, in all four fields, no show of previous
KeptIndices ==
    {i \in 1..Len(input.current) :
        \A j \in 1..Len(input.previous) :
            \/ input.current[i].title # input.previous[j].title
            \/ input.current[i].date # input.previous[j].date
            \/ input.current[i].time # input.previous[j].time
            \/ input.current[i].category # input.previous[j].category}

\* C1: check_for_new_shows yields exactly the shows of current that equal no show of
\* previous in all four fields, in their order in current; a show of previous that
\* is not in current is never in the result.
C1_DiffIsOrderPreservingFilter ==
    output # Pending =>
        /\ Len(DiffResult) = Cardinality(KeptIndices)
        /\ \A k \in 1..Len(DiffResult) :
              \E i \in KeptIndices :
                  /\ Cardinality({j \in KeptIndices : j <= i}) = k
                  /\ DiffResult[k] = input.current[i]
        /\ \A s \in Elems(input.previous) \ Elems(input.current) : s \notin Elems(DiffResult)

\* a call that dropped a show of previous, kept two new shows and filtered one out
C1_Witness ==
    /\ output # Pending
    /\ Len(DiffResult) = 2
    /\ Len(input.current) = 3
    /\ DiffResult[1].category = "Music"
    /\ DiffResult[2].date = Date2
    /\ \E s \in Elems(input.previous) : s \notin Elems(input.current)

\* --- C2 -------------------------------------------------------------------
\* C2: whenever a run ends with success, the persisted snapshot equals the full
\* current aggregate of that run.
C2_SuccessSavesCurrent ==
    (pc = "done" /\ outcome = "ok") => Snapshot(file) = current_shows

\* --- C3 -------------------------------------------------------------------
AbortsBeforeExport ==
    {"reqwest::Error", "Invalid date format", "Invalid day", "Invalid month",
     "Invalid year", "Invalid date", "ParseError(Invalid)", "ParseError(TooShort)",
     "ParseError(TooLong)", "ParseError(OutOfRange)",
     "env::VarError(TELEGRAM_TOKEN)", "env::VarError(CHAT_ID)"}

\* C3: export_file is called at most once per run, and only after both categories
\* were fetched and extracted, the diff was computed and notify returned Ok; a run
\* that aborts on a fetch, parse, environment or notification failure leaves
\* shows.json as it was.
C3_ExportOnlyAfterFullRun ==
    /\ Cardinality(Positions(log, "export_file")) <= 1
    /\ \A i \in Positions(log, "export_file") :
          /\ Cardinality({j \in Positions(log, "get_shows_by_category") : j < i}) = 2
          /\ \E j \in Positions(log, "check_for_new_shows") : j < i
          /\ \E j \in Positions(log, "notify") : j < i
          /\ Positions(log, "notify failed") = {}
    /\ Positions(log, "export_file") = {} => file = file_at_start
    /\ (pc = "done" /\ outcome = "err" /\ error \in AbortsBeforeExport) =>
          (file = file_at_start /\ Positions(log, "export_file") = {})

\* a run with a snapshot and new shows that aborted on the missing CHAT_ID
C3_Witness ==
    /\ pc = "done"
    /\ outcome = "err"
    /\ error = "env::VarError(CHAT_ID)"
    /\ new_shows # None
    /\ Snapshot(file_at_start) # <<>>
    /\ file = file_at_start

\* --- C4 -------------------------------------------------------------------
Malformed(e) ==
    e.date_container = Some(BadDateText) \/ e.time_container = Some(BadTimeText)

\* C4: with the listing container present, if a sub-node of some item is present but
\* its text does not parse, the extraction fails with the parse error of the first
\* such item (its date before its time) and returns no shows; otherwise every item
\* gives one show, in document order, with 1970-01-01 for an absent date and
\* 00:00:00 for an absent time.
C4_AbsentDefaultsMalformedFails ==
    (output # Pending /\ input.body # <<>>) =>
        LET items == input.body[1]
        IN  IF \E i \in 1..Len(items) : Malformed(items[i])
            THEN LET i == CHOOSE k \in 1..Len(items) :
                              Malformed(items[k]) /\ \A j \in 1..(k - 1) : ~Malformed(items[j])
                 IN  /\ ~output.ok
                     /\ ~output.panic
                     /\ output.err = (IF items[i].date_container = Some(BadDateText)
                                      THEN "Invalid date" ELSE "ParseError(OutOfRange)")
            ELSE /\ output.ok
                 /\ Len(output.val) = Len(items)
                 /\ \A i \in 1..Len(items) :
                       /\ output.val[i].category = input.category
                       /\ output.val[i].title = (IF items[i].h2 = None THEN <<>> ELSE <<"A">>)
                       /\ output.val[i].date =
                             (IF items[i].date_container = None
                              THEN [year |-> 1970, month |-> 1, day |-> 1]
                              ELSE [year |-> 2027, month |-> 5, day |-> 5])
                       /\ output.val[i].time =
                             (IF items[i].time_container = None
                              THEN [hour |-> 0, minute |-> 0, second |-> 0]
                              ELSE [hour |-> 20, minute |-> 30, second |-> 0])

\* two items extracted, the first without a date node, the second without a time node
C4_Witness ==
    /\ output # Pending
    /\ input.body # <<>>
    /\ Len(input.body[1]) = 2
    /\ input.body[1][1].date_container = None
    /\ input.body[1][2].time_container = None
    /\ output.ok
    /\ Len(output.val) = 2
    /\ output.val[1].date.year = 1970
    /\ output.val[2].time.hour = 0

\* --- C5 -------------------------------------------------------------------
\* C5: when the markup holds no div with class category_shows, the extraction fails
\* with an error value (MissingContainer) that is returned to the caller.
C5_MissingContainerIsError ==
    (output # Pending /\ input.body = NoContainerPage) => (~output.ok /\ ~output.panic)

\* --- C6 -------------------------------------------------------------------
SortKey(s) ==
    <<s.date.year, s.date.month, s.date.day, s.time.hour, s.time.minute, s.time.second>>

\* a is before b in the lexicographic order of two keys of the same length
RECURSIVE KeyLess(_, _)
KeyLess(a, b) ==
    IF a = <<>> THEN FALSE
    ELSE IF Head(a) # Head(b) THEN Head(a) < Head(b)
    ELSE KeyLess(Tail(a), Tail(b))

\* the subsequence of v of the shows with the key k
WithKey(v, k) ==
    LET Has(s) == SortKey(s) = k IN SelectSeq(v, Has)

\* C6: the aggregate is ascending in (date, time), and for every (date, time) its
\* shows with that key are the shows of Comedy ++ Music with that key, in that order
\* (so it is a permutation of the concatenation, and ties keep their order).
C6_AggregateIsStableSort ==
    Aggregated =>
        /\ \A i \in 1..(Len(current_shows) - 1) :
              ~KeyLess(SortKey(current_shows[i + 1]), SortKey(current_shows[i]))
        /\ Len(current_shows) = Len(shows_vec) + Len(music_vec)
        /\ \A s \in Elems(shows_vec \o music_vec) :
              WithKey(current_shows, SortKey(s)) = WithKey(shows_vec \o music_vec, SortKey(s))

\* Comedy B and Music A at the same date and time stay in that order although the
\* concatenation was not sorted
C6_Witness ==
    /\ Aggregated
    /\ shows_vec \o music_vec # current_shows
    /\ \E i, j \in 1..Len(current_shows) :
          /\ i < j
          /\ SortKey(current_shows[i]) = SortKey(current_shows[j])
          /\ current_shows[i].category = "Comedy"
          /\ current_shows[i].title = <<"B">>
          /\ current_shows[j].category = "Music"
          /\ current_shows[j].title = <<"A">>

\* --- C7 -------------------------------------------------------------------
\* what the tokens of the inputs are, read off the tokens themselves
TokenIsU32(t) == t \in {<<"2", "9">>, <<"3", "1">>, <<"2", "0", "2", "7">>, <<"2", "0", "2", "4">>}

TokenIsI32(t) == TokenIsU32(t) \/ t = <<"-", "5">>

TokenNumber(t) ==
    CASE t = <<"2", "9">> -> 29
      [] t = <<"3", "1">> -> 31
      [] t = <<"2", "0", "2", "7">> -> 2027
      [] t = <<"2", "0", "2", "4">> -> 2024
      [] t = <<"-", "5">> -> -5

TokenIsMonth(t) == t \in {months[2], months[5], months[6]}

TokenMonth(t) == IF t = months[2] THEN 2 ELSE IF t = months[5] THEN 5 ELSE 6

\* of the years of the inputs only 2024 is a leap year
ValidYmd(y, m, d) ==
    d <= (IF m = 5 THEN 31 ELSE IF m = 6 THEN 30 ELSE IF y = 2024 THEN 29 ELSE 28)

\* the input has one comma (two segments), and three tokens behind it
WellFormed == input.commas = 1 /\ Len(input.toks) = 3

\* C7 as amended: the checks run in the order of the code, the month before the year
C7_ParseDateInCodeOrder ==
    output # Pending =>
        IF ~WellFormed THEN ~output.ok /\ output.err = "Invalid date format"
        ELSE IF ~TokenIsU32(input.toks[1]) THEN ~output.ok /\ output.err = "Invalid day"
        ELSE IF ~TokenIsMonth(input.toks[2]) THEN ~output.ok /\ output.err = "Invalid month"
        ELSE IF ~TokenIsI32(input.toks[3]) THEN ~output.ok /\ output.err = "Invalid year"
        ELSE IF ~ValidYmd(TokenNumber(input.toks[3]), TokenMonth(input.toks[2]),
                          TokenNumber(input.toks[1]))
             THEN ~output.ok /\ output.err = "Invalid date"
        ELSE /\ output.ok
             /\ output.val = [year  |-> TokenNumber(input.toks[3]),
                              month |-> TokenMonth(input.toks[2]),
                              day   |-> TokenNumber(input.toks[1])]

\* 29 February 2024 parsed from a padded text
C7_Witness ==
    /\ output # Pending
    /\ input.pad
    /\ output.ok
    /\ output.val = [year |-> 2024, month |-> 2, day |-> 29]

\* C7 as claimed: a failure is that of the first failing step in the order
\* InvalidDateFormat, InvalidDay/InvalidYear, InvalidMonth, InvalidDate.
C7_ParseDateInClaimedOrder ==
    output # Pending =>
        IF ~WellFormed THEN ~output.ok /\ output.err = "Invalid date format"
        ELSE IF ~TokenIsU32(input.toks[1]) THEN ~output.ok /\ output.err = "Invalid day"
        ELSE IF ~TokenIsI32(input.toks[3]) THEN ~output.ok /\ output.err = "Invalid year"
        ELSE IF ~TokenIsMonth(input.toks[2]) THEN ~output.ok /\ output.err = "Invalid month"
        ELSE IF ~ValidYmd(TokenNumber(input.toks[3]), TokenMonth(input.toks[2]),
                          TokenNumber(input.toks[1]))
             THEN ~output.ok /\ output.err = "Invalid date"
        ELSE /\ output.ok
             /\ output.val = [year  |-> TokenNumber(input.toks[3]),
                              month |-> TokenMonth(input.toks[2]),
                              day   |-> TokenNumber(input.toks[1])]

\* --- C8 -------------------------------------------------------------------
FetchFailed(response) == ~response.transport \/ response.status \notin 200..299

\* C8: if the fetch of a category ends in a transport failure or a non-success
\* response, the run aborts with a network error: the body is not extracted, no
\* aggregate is produced, nothing is notified and the snapshot is not written.
C8_FailedFetchAbortsRun ==
    \A i \in 1..Len(fetched) :
        FetchFailed(fetched[i]) =>
            /\ pc = "done"
            /\ outcome = "err"
            /\ error = "reqwest::Error"
            /\ Len(fetched) = i
            /\ current_shows = <<>>
            /\ Positions(log, "notify") = {}
            /\ file = file_at_start

\* --- C9 -------------------------------------------------------------------
\* a line without the carriage return that the separator leaves at its end
StripCR(line) ==
    IF line # <<>> /\ line[Len(line)] = "\r" THEN SubSeq(line, 1, Len(line) - 1) ELSE line

MsgLines == Split(msg, "\n")

\* the shows the pages can hold have the dates and times of these texts
DateShown(d) ==
    IF d.day = 5 THEN <<"2", "0", "2", "7", "-", "0", "5", "-", "0", "5">>
                 ELSE <<"2", "0", "2", "7", "-", "0", "5", "-", "0", "6">>

TimeShown(t) ==
    IF t.hour = 20 THEN <<"2", "0", ":", "3", "0", ":", "0", "0">>
                   ELSE <<"2", "1", ":", "0", "0", ":", "0", "0">>

\* C9 as amended: the header line, then one line per new show in diff order, each
\* <title> U+1F51B `<date> (<time>)`, the show lines joined by CR LF.
C9_MessageLines ==
    MsgFormatted =>
        /\ Len(MsgLines) = 1 + Len(new_shows[1])
        /\ MsgLines[1] = Header
        /\ \A i \in 1..Len(new_shows[1]) :
              /\ StripCR(MsgLines[i + 1]) =
                    new_shows[1][i].title \o <<" ", OnArrow, " ", GraveAccent>>
                        \o DateShown(new_shows[1][i].date) \o <<" ", "(">>
                        \o TimeShown(new_shows[1][i].time) \o <<")", GraveAccent>>
              /\ (MsgLines[i + 1] # StripCR(MsgLines[i + 1])) <=> (i < Len(new_shows[1]))

\* a message for three new shows, in the order of the diff
C9_Witness ==
    /\ MsgFormatted
    /\ Len(new_shows[1]) = 3
    /\ Len(MsgLines) = 4
    /\ prev_shows_vec # <<>>

\* C9 as claimed: each line is <title> -> <date> (<time>).
C9_MessageLinesWithArrow ==
    MsgFormatted =>
        /\ Len(MsgLines) = 1 + Len(new_shows[1])
        /\ \A i \in 1..Len(new_shows[1]) :
              StripCR(MsgLines[i + 1]) =
                  new_shows[1][i].title \o <<" ", "-", ">", " ">>
                      \o DateShown(new_shows[1][i].date) \o <<" ", "(">>
                      \o TimeShown(new_shows[1][i].time) \o <<")">>

\* --- C10 ------------------------------------------------------------------
\* C10: every show of the persisted snapshot was named in a text for which notify
\* returned Ok, in the run that wrote the snapshot or in an earlier one.
C10_SnapshotShowsWereNotified == Elems(Snapshot(file)) \subseteq notified

\* a later run wrote a snapshot with a show kept from the previous snapshot and a
\* show first notified in this run
C10_Witness ==
    /\ run > 1
    /\ pc = "done"
    /\ outcome = "ok"
    /\ Positions(log, "export_file") # {}
    /\ \E s \in Elems(Snapshot(file)) : s \in Elems(prev_shows_vec)
    /\ \E s \in Elems(Snapshot(file)) : s \in Elems(new_shows[1])
    /\ \E s \in Elems(prev_shows_vec) : s \notin Elems(Snapshot(file))

====
